---- MODULE Spec2Model ----
(***************************************************************************)
(* The Ruffle lexical front end: the Token table and its derived scanner   *)
(* (compiler/src/lexer.rs), the lex_source loop that collects one result   *)
(* per lexeme, and the position resolver rows_cols_index                    *)
(* (compiler/src/utils.rs).                                                 *)
(*                                                                         *)
(* A source is a sequence of characters; a character is a one-element      *)
(* string, except NonAscii, which stands for a character whose UTF-8       *)
(* encoding takes two bytes.  Scanner positions are character counts; the  *)
(* spans pushed by lex_source are byte offsets (ByteOff).                  *)
(***************************************************************************)
EXTENDS Integers, Sequences, FiniteSets, TLC

VARIABLES
    source,    \* the &str handed to lex_source / rows_cols_index
    rewinds,   \* how the derived scanner ends a dead looping candidate
    pos,       \* characters consumed by the lexer
    scanned,   \* positions at which a match attempt has started
    tokens,    \* the Vec<Result<SlicedToken, SlicedError>> being built
    pc,        \* "lex", "done", "rc", "rc_done"
    base,      \* the source before an insertion (the source itself otherwise)
    insAt,     \* characters of base before the insertion
    filler,    \* the inserted text
    index,     \* rows_cols_index: the index argument
    i,         \* rows_cols_index: the enumerate() counter
    rows,      \* rows_cols_index: rows
    cols       \* rows_cols_index: cols

vars == <<source, rewinds, pos, scanned, tokens, pc, base, insAt, filler,
          index, i, rows, cols>>

----------------------------------------------------------------------------
(* Characters *)

NonAscii == "U+00E9"

Digits == {"0", "1", "2", "3", "4", "5", "6", "7", "8", "9"}

Lower == {"a", "b", "c", "d", "e", "f", "g", "h", "i", "j", "k", "l", "m",
          "n", "o", "p", "q", "r", "s", "t", "u", "v", "w", "x", "y", "z"}

Upper == {"A", "B", "C", "D", "E", "F", "G", "H", "I", "J", "K", "L", "M",
          "N", "O", "P", "Q", "R", "S", "T", "U", "V", "W", "X", "Y", "Z"}

DigitValue(c) ==
    CASE c = "0" -> 0 [] c = "1" -> 1 [] c = "2" -> 2 [] c = "3" -> 3
      [] c = "4" -> 4 [] c = "5" -> 5 [] c = "6" -> 6 [] c = "7" -> 7
      [] c = "8" -> 8 [] c = "9" -> 9

\* len_utf8 of a character: the bytes it occupies in the &str.
Width(c) == IF c = NonAscii THEN 2 ELSE 1

RECURSIVE ByteOff(_, _)
\* Byte offset of the position after the first n characters of s.
ByteOff(s, n) == IF n = 0 THEN 0 ELSE ByteOff(s, n - 1) + Width(s[n])

ByteLen(s) == ByteOff(s, Len(s))

Max(S) == CHOOSE x \in S : \A y \in S : y <= x

Min(S) == CHOOSE x \in S : \A y \in S : x <= y

----------------------------------------------------------------------------
(* The Token table: #[token("...")] literals, in declaration order *)

Symbols ==
    {"Period", "Comma", "Semi", "Bang", "Question", "Colon", "ColonColon",
     "LParen", "RParen", "LSquare", "RSquare", "LBrace", "RBrace",
     "StraightArrow", "EqArrow", "Plus", "Minus", "Star", "Slash", "Modulus",
     "EqEq", "EqEqEq", "Ne", "Nee", "Less", "LessEq", "Greater", "GreaterEq",
     "AndAnd", "OrOr", "Eq", "PlusEq", "MinusEq", "StarEq", "SlashEq"}

Keywords ==
    {"Let", "Fn", "If", "Else", "While", "For", "Return", "Class", "Impl",
     "Struct", "Enum", "SelfValue", "Super", "Use", "Mod", "Const", "Static"}

FixedTokens == Symbols \cup Keywords

Literal(t) ==
    CASE t = "Period" -> <<".">>
      [] t = "Comma" -> <<",">>
      [] t = "Semi" -> <<";">>
      [] t = "Bang" -> <<"!">>
      [] t = "Question" -> <<"?">>
      [] t = "Colon" -> <<":">>
      [] t = "ColonColon" -> <<":", ":">>
      [] t = "LParen" -> <<"(">>
      [] t = "RParen" -> <<")">>
      [] t = "LSquare" -> <<"[">>
      [] t = "RSquare" -> <<"]">>
      [] t = "LBrace" -> <<"{">>
      [] t = "RBrace" -> <<"}">>
      [] t = "StraightArrow" -> <<"-", ">">>
      [] t = "EqArrow" -> <<"=", ">">>
      [] t = "Plus" -> <<"+">>
      [] t = "Minus" -> <<"-">>
      [] t = "Star" -> <<"*">>
      [] t = "Slash" -> <<"/">>
      [] t = "Modulus" -> <<"%">>
      [] t = "EqEq" -> <<"=", "=">>
      [] t = "EqEqEq" -> <<"=", "=", "=">>
      [] t = "Ne" -> <<"!", "=">>
      [] t = "Nee" -> <<"!", "=", "=">>
      [] t = "Less" -> <<"<">>
      [] t = "LessEq" -> <<"<", "=">>
      [] t = "Greater" -> <<">">>
      [] t = "GreaterEq" -> <<">", "=">>
      [] t = "AndAnd" -> <<"&", "&">>
      [] t = "OrOr" -> <<"|", "|">>
      [] t = "Eq" -> <<"=">>
      [] t = "PlusEq" -> <<"+", "=">>
      [] t = "MinusEq" -> <<"-", "=">>
      [] t = "StarEq" -> <<"*", "=">>
      [] t = "SlashEq" -> <<"/", "=">>
      [] t = "Let" -> <<"l", "e", "t">>
      [] t = "Fn" -> <<"f", "n">>
      [] t = "If" -> <<"i", "f">>
      [] t = "Else" -> <<"e", "l", "s", "e">>
      [] t = "While" -> <<"w", "h", "i", "l", "e">>
      [] t = "For" -> <<"f", "o", "r">>
      [] t = "Return" -> <<"r", "e", "t", "u", "r", "n">>
      [] t = "Class" -> <<"c", "l", "a", "s", "s">>
      [] t = "Impl" -> <<"i", "m", "p", "l">>
      [] t = "Struct" -> <<"s", "t", "r", "u", "c", "t">>
      [] t = "Enum" -> <<"e", "n", "u", "m">>
      [] t = "SelfValue" -> <<"s", "e", "l", "f">>
      [] t = "Super" -> <<"s", "u", "p", "e", "r">>
      [] t = "Use" -> <<"u", "s", "e">>
      [] t = "Mod" -> <<"m", "o", "d">>
      [] t = "Const" -> <<"c", "o", "n", "s", "t">>
      [] t = "Static" -> <<"s", "t", "a", "t", "i", "c">>

\* Display with the arm of Ne printing the text of Nee.
DisplayNeAsNee(t) == IF t = "Ne" THEN Literal("Nee") ELSE Literal(t)

\* impl Display for Token, the fixed-text arms.
Display(t) ==
    CASE t = "Period" -> <<".">>
      [] t = "Comma" -> <<",">>
      [] t = "Semi" -> <<";">>
      [] t = "Bang" -> <<"!">>
      [] t = "Question" -> <<"?">>
      [] t = "Colon" -> <<":">>
      [] t = "ColonColon" -> <<":", ":">>
      [] t = "LParen" -> <<"(">>
      [] t = "RParen" -> <<")">>
      [] t = "LSquare" -> <<"[">>
      [] t = "RSquare" -> <<"]">>
      [] t = "LBrace" -> <<"{">>
      [] t = "RBrace" -> <<"}">>
      [] t = "StraightArrow" -> <<"-", ">">>
      [] t = "EqArrow" -> <<"=", ">">>
      [] t = "Plus" -> <<"+">>
      [] t = "Minus" -> <<"-">>
      [] t = "Star" -> <<"*">>
      [] t = "Slash" -> <<"/">>
      [] t = "Modulus" -> <<"%">>
      [] t = "EqEq" -> <<"=", "=">>
      [] t = "EqEqEq" -> <<"=", "=", "=">>
      [] t = "Ne" -> <<"!", "=">>
      [] t = "Nee" -> <<"!", "=", "=">>
      [] t = "Less" -> <<"<">>
      [] t = "LessEq" -> <<"<", "=">>
      [] t = "Greater" -> <<">">>
      [] t = "GreaterEq" -> <<">", "=">>
      [] t = "AndAnd" -> <<"&", "&">>
      [] t = "OrOr" -> <<"|", "|">>
      [] t = "Eq" -> <<"=">>
      [] t = "PlusEq" -> <<"+", "=">>
      [] t = "MinusEq" -> <<"-", "=">>
      [] t = "StarEq" -> <<"*", "=">>
      [] t = "SlashEq" -> <<"/", "=">>
      [] t = "Let" -> <<"l", "e", "t">>
      [] t = "Fn" -> <<"f", "n">>
      [] t = "If" -> <<"i", "f">>
      [] t = "Else" -> <<"e", "l", "s", "e">>
      [] t = "While" -> <<"w", "h", "i", "l", "e">>
      [] t = "For" -> <<"f", "o", "r">>
      [] t = "Return" -> <<"r", "e", "t", "u", "r", "n">>
      [] t = "Class" -> <<"c", "l", "a", "s", "s">>
      [] t = "Impl" -> <<"i", "m", "p", "l">>
      [] t = "Struct" -> <<"s", "t", "r", "u", "c", "t">>
      [] t = "Enum" -> <<"e", "n", "u", "m">>
      [] t = "SelfValue" -> <<"s", "e", "l", "f">>
      [] t = "Super" -> <<"s", "u", "p", "e", "r">>
      [] t = "Use" -> <<"u", "s", "e">>
      [] t = "Mod" -> <<"m", "o", "d">>
      [] t = "Const" -> <<"c", "o", "n", "s", "t">>
      [] t = "Static" -> <<"s", "t", "a", "t", "i", "c">>

----------------------------------------------------------------------------
(* Character classes of the patterns *)

\* [0-9]
IsDigit(c) == c \in Digits

\* [a-zA-Z_]
IsIdentStart(c) == c \in Lower \cup Upper \cup {"_"}

\* [a-zA-Z0-9_]
IsIdentChar(c) == IsIdentStart(c) \/ IsDigit(c)

\* [ \t\n\f]
IsSpace(c) == c \in {" ", "\t", "\n", "\f"}

\* `.` : any character but a newline
IsNotNewline(c) == c # "\n"

InClass(class, c) ==
    CASE class = "digit" -> IsDigit(c)
      [] class = "ident" -> IsIdentChar(c)
      [] class = "space" -> IsSpace(c)
      [] class = "dot" -> IsNotNewline(c)

\* Length of the longest run of characters of a class that starts after the
\* first p characters of s (the greedy `*` / `+` of a pattern).
RunLen(s, p, class) ==
    Max({n \in 0..(Len(s) - p) : \A k \in 1..n : InClass(class, s[p + k])})

\* lit is a prefix of what remains of s after p characters.
PrefixAt(s, p, lit) ==
    /\ p + Len(lit) <= Len(s)
    /\ \A k \in 1..Len(lit) : s[p + k] = lit[k]

----------------------------------------------------------------------------
(* The candidates of one match attempt after p characters of s *)

\* The #[token] table as a function of the variant.
Literals == [t \in FixedTokens |-> Literal(t)]

FixedCandidates(s, p) ==
    IF p >= Len(s) THEN {} ELSE {t \in FixedTokens : PrefixAt(s, p, Literals[t])}

\* The shortest matching literal instead of the longest.
FixedLenShortest(s, p) ==
    LET found == FixedCandidates(s, p)
    IN  IF found = {} THEN 0 ELSE Min({Len(Literals[t]) : t \in found})

\* Length of the longest #[token] literal matching at p, 0 when none does.
FixedLen(s, p) ==
    LET found == FixedCandidates(s, p)
    IN  IF found = {} THEN 0 ELSE Max({Len(Literals[t]) : t \in found})

FixedTok(s, p) ==
    CHOOSE t \in FixedCandidates(s, p) : Len(Literals[t]) = FixedLen(s, p)

\* #[regex(r"[0-9]+")]
IntegerLen(s, p) == RunLen(s, p, "digit")

\* #[regex(r"[0-9]+\.[0-9]+")]
FloatLen(s, p) ==
    LET d == RunLen(s, p, "digit")
        e == IF p + d + 1 <= Len(s) THEN RunLen(s, p + d + 1, "digit") ELSE 0
    IN  IF d >= 1 /\ p + d + 1 <= Len(s) /\ s[p + d + 1] = "." /\ e >= 1
        THEN d + 1 + e
        ELSE 0

\* #[regex(r"[a-zA-Z_][a-zA-Z0-9_]*")]
IdentLen(s, p) ==
    IF p + 1 <= Len(s) /\ IsIdentStart(s[p + 1])
    THEN 1 + RunLen(s, p + 1, "ident")
    ELSE 0

RECURSIVE StringBody(_, _)
\* ([^"\\]|\\.)*" after j characters: ok with the position after the closing
\* quote, or not ok with the position where the pattern stopped matching.
StringBody(s, j) ==
    IF j >= Len(s) THEN [ok |-> FALSE, end |-> j]
    ELSE IF s[j + 1] = "\"" THEN [ok |-> TRUE, end |-> j + 1]
    ELSE IF s[j + 1] = "\\"
         THEN IF j + 2 <= Len(s) /\ IsNotNewline(s[j + 2])
              THEN StringBody(s, j + 2)
              ELSE [ok |-> FALSE, end |-> j + 1]
    ELSE StringBody(s, j + 1)

\* #[regex(r#""([^"\\]|\\.)*""#)]
StringMatch(s, p) ==
    IF PrefixAt(s, p, <<"\"">>) THEN StringBody(s, p + 1)
    ELSE [ok |-> FALSE, end |-> p]

StringLen(s, p) == IF StringMatch(s, p).ok THEN StringMatch(s, p).end - p ELSE 0

RECURSIVE BlockBody(_, _, _)
\* ([^*]|\*+[^*/])*\*+/ after j characters; stars: inside a \*+ run.
BlockBody(s, j, stars) ==
    IF j >= Len(s) THEN [ok |-> FALSE, end |-> j]
    ELSE IF s[j + 1] = "*" THEN BlockBody(s, j + 1, TRUE)
    ELSE IF stars /\ s[j + 1] = "/" THEN [ok |-> TRUE, end |-> j + 1]
    ELSE BlockBody(s, j + 1, FALSE)

\* A block comment that the end of the input closes too.
BlockMatchToEof(s, p) ==
    IF PrefixAt(s, p, <<"/", "*">>)
    THEN [ok |-> TRUE,
          end |-> IF BlockBody(s, p + 2, FALSE).ok THEN BlockBody(s, p + 2, FALSE).end
                  ELSE Len(s)]
    ELSE [ok |-> FALSE, end |-> p]

\* skip alternative /\*([^*]|\*+[^*/])*\*+/
BlockMatch(s, p) ==
    IF PrefixAt(s, p, <<"/", "*">>) THEN BlockBody(s, p + 2, FALSE)
    ELSE [ok |-> FALSE, end |-> p]

BlockLen(s, p) == IF BlockMatch(s, p).ok THEN BlockMatch(s, p).end - p ELSE 0

\* skip alternative //.*
LineLen(s, p) ==
    IF PrefixAt(s, p, <<"/", "/">>) THEN 2 + RunLen(s, p + 2, "dot")
    ELSE 0

\* The whitespace class without the form feed.
SpaceLenNoFormFeed(s, p) ==
    Max({n \in 0..(Len(s) - p) : \A k \in 1..n : s[p + k] \in {" ", "\t", "\n"}})

\* skip alternative [ \t\n\f]+
SpaceLen(s, p) == RunLen(s, p, "space")

\* #[logos(skip r"[ \t\n\f]+|//.*|/\*([^*]|\*+[^*/])*\*+/")]
SkipLen(s, p) == Max({SpaceLen(s, p), LineLen(s, p), BlockLen(s, p)})

----------------------------------------------------------------------------
(* Callbacks *)

I32Max == 2147483647

RECURSIVE ParseSaturating(_, _, _)
\* A parse that saturates at i32::MAX instead of failing.
ParseSaturating(d, k, acc) ==
    IF k > Len(d) THEN [ok |-> TRUE, value |-> acc]
    ELSE IF acc > I32Max \div 10 \/ acc * 10 > I32Max - DigitValue(d[k])
         THEN [ok |-> TRUE, value |-> I32Max]
    ELSE ParseSaturating(d, k + 1, acc * 10 + DigitValue(d[k]))

RECURSIVE ParseFrom(_, _, _)
\* str::parse::<i32> on a run of digits: checked multiply by ten, checked add.
ParseFrom(d, k, acc) ==
    IF k > Len(d) THEN [ok |-> TRUE, value |-> acc]
    ELSE IF acc > I32Max \div 10 THEN [ok |-> FALSE, value |-> 0]
    ELSE IF acc * 10 > I32Max - DigitValue(d[k]) THEN [ok |-> FALSE, value |-> 0]
    ELSE ParseFrom(d, k + 1, acc * 10 + DigitValue(d[k]))

\* |lex| lex.slice().parse() of Token::Integer
ParseInt(d) == ParseFrom(d, 1, 0)

\* From<ParseIntError>: PosOverflow | NegOverflow -> "overflow", else "other".
\* On [0-9]+ the only failure parse can report is PosOverflow.
IntErrorReason(parsed) == IF ~parsed.ok THEN "overflow" ELSE "other"

\* |lex| lex.slice()[1..lex.slice().len() - 1].to_owned() of Token::String
Unquote(slice) == SubSeq(slice, 2, Len(slice) - 1)

----------------------------------------------------------------------------
(* The scanner derived from the Token table (#[derive(Logos)]).            *)
(* One match attempt takes the longest candidate; on equal length a        *)
(* #[token] literal has priority over a #[regex].  With no candidate the   *)
(* attempt yields the default error, LexingError::NonAsciiCharacter.       *)
(*                                                                         *)
(* rewinds: what the generated scanner does when a candidate that loops    *)
(* after its opener (a string after its quote, a block comment after its   *)
(* slash-star) stops matching with no closing delimiter.  TRUE: the        *)
(* attempt ends where the last accepted candidate ended (one character     *)
(* when there is none).  FALSE: it ends where the looping candidate        *)
(* stopped.  The derive fixes one of the two for a build; the table does   *)
(* not say which.                                                           *)

Attempt(class, p, e, kind, text, num, reason) ==
    [class |-> class, start |-> p, end |-> e, kind |-> kind, text |-> text,
     num |-> num, reason |-> reason]

\* An error attempt that gives up on the rest of the input.
ErrorEndToEof(rw, s, p) == Len(s)

\* An error attempt that consumes nothing.
ErrorEndStuck(rw, s, p) == p

\* End of an error attempt: one character, or the end of a dead string.
ErrorEnd(rw, s, p) ==
    IF ~rw /\ PrefixAt(s, p, <<"\"">>) THEN StringMatch(s, p).end ELSE p + 1

\* End of a #[token] attempt: the literal, or the end of a dead block comment.
FixedEnd(rw, s, p) ==
    IF ~rw /\ PrefixAt(s, p, <<"/", "*">>) /\ ~BlockMatch(s, p).ok
    THEN BlockMatch(s, p).end
    ELSE p + FixedLen(s, p)

\* The #[regex] candidate taken on equal length.
RegexWinsTie(fixed, regex) == fixed > regex

\* A literal of length fixed against the longest #[regex] candidate, of length
\* regex: the longer wins, and the literal has priority on equal length.
LiteralWins(fixed, regex) == fixed >= regex

Match(rw, s, p) ==
    LET fixed   == FixedLen(s, p)
        integer == IntegerLen(s, p)
        float   == FloatLen(s, p)
        string  == StringLen(s, p)
        ident   == IdentLen(s, p)
        skip    == SkipLen(s, p)
        regex   == Max({integer, float, string, ident})
        best    == Max({fixed, regex, skip})
        slice   == SubSeq(s, p + 1, p + best)
        parsed  == ParseInt(slice)
    IN  IF p >= Len(s) THEN Attempt("end", p, p, "", <<>>, 0, "")
        ELSE IF best = 0
             THEN Attempt("error", p, ErrorEnd(rw, s, p), "NonAsciiCharacter", <<>>, 0, "")
        ELSE IF skip = best
             THEN Attempt("skip", p, p + best, "", <<>>, 0, "")
        ELSE IF fixed > 0 /\ LiteralWins(fixed, regex)
             THEN Attempt("token", p, FixedEnd(rw, s, p), FixedTok(s, p), <<>>, 0, "")
        ELSE IF float = best
             THEN Attempt("token", p, p + best, "Float", slice, 0, "")
        ELSE IF integer = best
             THEN IF parsed.ok
                  THEN Attempt("token", p, p + best, "Integer", <<>>, parsed.value, "")
                  ELSE Attempt("error", p, p + best, "InvalidInteger", <<>>, 0,
                               IntErrorReason(parsed))
        ELSE IF string = best
             THEN Attempt("token", p, p + best, "String", Unquote(slice), 0, "")
        ELSE Attempt("token", p, p + best, "Ident", slice, 0, "")

RECURSIVE LexerNext(_, _, _)
\* lexer.next(): skipped matches restart the attempt where they end.
LexerNext(rw, s, p) ==
    LET m == Match(rw, s, p)
    IN  IF m.class = "skip" THEN LexerNext(rw, s, m.end) ELSE m

RECURSIVE ScanPath(_, _, _)
\* The positions at which lexer.next() starts a match attempt.
ScanPath(rw, s, p) ==
    LET m == Match(rw, s, p)
    IN  IF p >= Len(s) THEN {}
        ELSE IF m.class = "skip" THEN {p} \cup ScanPath(rw, s, m.end)
        ELSE {p}

\* A span whose end is the offset after its last byte plus one.
SpanEndPlusOne(s, m) == [start |-> ByteOff(s, m.start), end |-> ByteOff(s, m.end) + 1]

\* lexer.span(): the byte range of the attempt.
Span(s, m) == [start |-> ByteOff(s, m.start), end |-> ByteOff(s, m.end)]

\* Ok(SlicedToken { token, span, source }) / Err(SlicedError { error, span, source })
Sliced(s, m) ==
    [ok |-> m.class = "token", kind |-> m.kind, text |-> m.text, num |-> m.num,
     reason |-> m.reason, span |-> Span(s, m)]

----------------------------------------------------------------------------
(* lex_source *)

\* while let Some(token) = lexer.next() { tokens.push(...) }
LexPush ==
    /\ pc = "lex"
    /\ LET m == LexerNext(rewinds, source, pos)
       IN  /\ m.class # "end"
           /\ tokens' = Append(tokens, Sliced(source, m))
           /\ pos' = m.end
    /\ scanned' = scanned \cup ScanPath(rewinds, source, pos)
    /\ UNCHANGED <<source, rewinds, pc, base, insAt, filler, index, i, rows, cols>>

\* lexer.next() is None: return tokens
LexReturn ==
    /\ pc = "lex"
    /\ LET m == LexerNext(rewinds, source, pos)
       IN  /\ m.class = "end"
           /\ pos' = m.end
    /\ scanned' = scanned \cup ScanPath(rewinds, source, pos)
    /\ pc' = "done"
    /\ UNCHANGED <<source, rewinds, tokens, base, insAt, filler, index, i, rows, cols>>

----------------------------------------------------------------------------
(* rows_cols_index and the diagnostic that calls it *)

\* impl Display for SlicedError: rows_cols_index(self.source, self.span.start)
ErrorDisplay ==
    /\ pc = "done"
    /\ \E k \in 1..Len(tokens) :
          /\ ~tokens[k].ok
          /\ index' = tokens[k].span.start
    /\ i' = 0 /\ rows' = 1 /\ cols' = 1
    /\ pc' = "rc"
    /\ UNCHANGED <<source, rewinds, pos, scanned, tokens, base, insAt, filler>>

\* for (i, char) in input.chars().enumerate(): one iteration that does not break
RowsColsStep ==
    /\ pc = "rc"
    /\ i < Len(source)
    /\ i # index
    /\ IF source[i + 1] = "\n"
       THEN rows' = rows + 1 /\ cols' = 1
       ELSE rows' = rows /\ cols' = cols + 1
    /\ i' = i + 1
    /\ UNCHANGED <<source, rewinds, pos, scanned, tokens, pc, base, insAt, filler, index>>

\* break on i == index, or the iterator is exhausted: (rows, cols)
RowsColsReturn ==
    /\ pc = "rc"
    /\ (i >= Len(source) \/ i = index)
    /\ pc' = "rc_done"
    /\ UNCHANGED <<source, rewinds, pos, scanned, tokens, base, insAt, filler, index, i, rows, cols>>

----------------------------------------------------------------------------
(* Inputs *)

MaxOps == 3
MaxWords == 2
MaxChars == 3
MaxNum == 3
MaxIns == 2
MaxDiag == 3
MaxBeyond == 2

RECURSIVE Srcs(_, _)
\* The concatenations of at most k pieces of a lexicon.
Srcs(lexicon, k) ==
    IF k = 0 THEN {<<>>}
    ELSE LET prev == Srcs(lexicon, k - 1)
         IN  prev \cup {x \o piece : x \in prev, piece \in lexicon}

OpPieces ==
    {<<"=">>, <<"!">>, <<"<">>, <<">">>, <<"+">>, <<"-">>, <<"*">>, <<"/">>, <<":">>,
     <<" ">>}

WordPieces ==
    {<<"l", "e", "t">>, <<"f", "n">>, <<"i", "f">>, <<"e", "l", "s", "e">>,
     <<"w", "h", "i", "l", "e">>, <<"f", "o", "r">>,
     <<"r", "e", "t", "u", "r", "n">>, <<"c", "l", "a", "s", "s">>,
     <<"i", "m", "p", "l">>, <<"s", "t", "r", "u", "c", "t">>,
     <<"e", "n", "u", "m">>, <<"s", "e", "l", "f">>,
     <<"s", "u", "p", "e", "r">>, <<"u", "s", "e">>, <<"m", "o", "d">>,
     <<"c", "o", "n", "s", "t">>, <<"s", "t", "a", "t", "i", "c">>, <<"s">>,
     <<"x">>, <<"_">>, <<"9">>, <<" ">>, <<"(">>}

CharPieces ==
    {<<"@">>, <<"&">>, <<"\"">>, <<"/">>, <<"*">>, <<"x">>, <<" ">>,
     <<"\n">>, <<";">>, <<"\\">>, <<NonAscii>>, <<"1">>}

NumPieces ==
    {<<"2", "1", "4", "7", "4", "8", "3", "6", "4", "7">>,
     <<"2", "1", "4", "7", "4", "8", "3", "6", "4", "8">>, <<"0">>, <<"9">>,
     <<".">>, <<" ">>, <<";">>, <<"x">>, <<"-">>}

InsPieces ==
    {<<"l", "e", "t">>, <<"x">>, <<"=">>, <<"/">>, <<"*">>, <<"\"">>, <<" ">>, <<"@">>}

Fillers ==
    {<<" ">>, <<"\n", "\t", " ", "\f">>, <<"/", "/", "c", "\n">>,
     <<"/", "*", "c", "*", "/">>, <<"/", "*", "\"", "*", "/">>,
     <<"/", "*", "*", "/">>}

DiagPieces ==
    {<<"@">>, <<NonAscii>>, <<"\n">>, <<"a">>}

Examples ==
    {<<"l", "e", "t", " ", "x", " ", "=", " ", "@", ";">>,
     <<"l", "e", "t", " ", "x", "=", "1", ";">>,
     <<" ", " ", "l", "e", "t", " ", " ", " ", "x", " ", "=", " ", "1", " ", ";", " ", " ", "/", "/", " ", "t", "r", "a", "i", "l", "i", "n", "g", "\n">>,
     <<"s", "e", "l", "f", "i", "s", "h">>, <<"=", "=", "=">>,
     <<"!", "=", "=">>,
     <<"H", "e", "l", "l", "o", "\n", "W", "o", "r", "l", "d", "\n", "R", "u", "s", "t", "!">>}


LexInit(S) ==
    /\ source \in S
    /\ rewinds \in BOOLEAN
    /\ pos = 0 /\ scanned = {} /\ tokens = <<>> /\ pc = "lex"
    /\ base = source /\ insAt = 0 /\ filler = <<>>
    /\ index = 0 /\ i = 0 /\ rows = 1 /\ cols = 1

InitOps == LexInit(Srcs(OpPieces, MaxOps) \cup Examples)

InitWords == LexInit(Srcs(WordPieces, MaxWords) \cup Examples)

InitChars == LexInit(Srcs(CharPieces, MaxChars) \cup Examples)

InitNum == LexInit(Srcs(NumPieces, MaxNum) \cup Examples)

InitDisplay == LexInit({Display(t) : t \in FixedTokens})

InitDiag == LexInit(Srcs(DiagPieces, MaxDiag) \cup Examples)

\* source is base with a filler inserted after insAt of its characters.
InitIns ==
    /\ base \in Srcs(InsPieces, MaxIns) \cup Examples
    /\ insAt \in 0..Len(base)
    /\ filler \in Fillers
    /\ source = SubSeq(base, 1, insAt) \o filler \o SubSeq(base, insAt + 1, Len(base))
    /\ rewinds \in BOOLEAN
    /\ pos = 0 /\ scanned = {} /\ tokens = <<>> /\ pc = "lex"
    /\ index = 0 /\ i = 0 /\ rows = 1 /\ cols = 1

\* A direct call rows_cols_index(input, index) on the lexed source, with the
\* byte offset of a character boundary or an offset beyond the source.
RowsColsCall ==
    /\ pc = "done"
    /\ index' \in {ByteOff(source, n) : n \in 0..Len(source)}
                 \cup (ByteLen(source)..(ByteLen(source) + MaxBeyond))
    /\ i' = 0 /\ rows' = 1 /\ cols' = 1
    /\ pc' = "rc"
    /\ UNCHANGED <<source, rewinds, pos, scanned, tokens, base, insAt, filler>>

NextLex == LexPush \/ LexReturn

NextDiag == LexPush \/ LexReturn \/ ErrorDisplay \/ RowsColsCall \/ RowsColsStep \/ RowsColsReturn

Spec == InitChars /\ [][NextLex]_vars

SpecOps == InitOps /\ [][NextLex]_vars

SpecWords == InitWords /\ [][NextLex]_vars

SpecNum == InitNum /\ [][NextLex]_vars

SpecDisplay == InitDisplay /\ [][NextLex]_vars

SpecIns == InitIns /\ [][NextLex]_vars

SpecDiag == InitDiag /\ [][NextDiag]_vars

----------------------------------------------------------------------------
(* Vocabulary of the properties *)

Done == pc = "done"

Results == {tokens[k] : k \in 1..Len(tokens)}

\* The results whose span starts at the byte of character position p.
ResultsAt(p) == {r \in Results : r.span.start = ByteOff(source, p)}

\* After an attempt that ended at character position q the scan went on at q.
ResumesAt(q) == q >= Len(source) \/ q \in scanned

SourceIs(example) == source = example

ExLetAt == <<"l", "e", "t", " ", "x", " ", "=", " ", "@", ";">>

ExEqEqEq == <<"=", "=", "=">>

ExNee == <<"!", "=", "=">>

ExSelfish == <<"s", "e", "l", "f", "i", "s", "h">>

\* A result's token or error value, its span left out.
Value(r) == [ok |-> r.ok, kind |-> r.kind, text |-> r.text, num |-> r.num,
             reason |-> r.reason]

Values(rs) == [k \in 1..Len(rs) |-> Value(rs[k])]

OkToken(kind, text, num) ==
    [ok |-> TRUE, kind |-> kind, text |-> text, num |-> num, reason |-> ""]

ErrValue(kind, reason) ==
    [ok |-> FALSE, kind |-> kind, text |-> <<>>, num |-> 0, reason |-> reason]

----------------------------------------------------------------------------
(* C1 *)

\* C1: the results of lex_source, in output order, have spans with
\* start <= end <= len(source), and consecutive results r, r2 satisfy
\* r.span.end <= r2.span.start and r.span.start < r2.span.start.
C1_SpansOrdered ==
    \A k \in 1..Len(tokens) :
        /\ tokens[k].span.start <= tokens[k].span.end
        /\ tokens[k].span.end <= ByteLen(source)
        /\ k < Len(tokens) =>
              /\ tokens[k].span.end <= tokens[k + 1].span.start
              /\ tokens[k].span.start < tokens[k + 1].span.start

\* A finished scan with tokens and errors mixed, one of them on a two-byte
\* character.
C1_Witness ==
    /\ Done
    /\ Len(tokens) >= 3
    /\ \E r \in Results : r.ok
    /\ \E r \in Results : ~r.ok /\ r.span.end = r.span.start + 2

----------------------------------------------------------------------------
(* C2 *)

SymbolPrefixes(p) == {t \in Symbols : PrefixAt(source, p, Literals[t])}

\* The longest operator or punctuation literal that is a prefix of the input
\* left at a position where some such literal is one.
LongestSymbol(p) ==
    CHOOSE t \in SymbolPrefixes(p) :
        \A u \in SymbolPrefixes(p) : Len(Literals[u]) <= Len(Literals[t])

EmitsLongestSymbol(p) ==
    \E r \in ResultsAt(p) :
        /\ Value(r) = OkToken(LongestSymbol(p), <<>>, 0)
        /\ r.span.end >= ByteOff(source, p + Len(Literal(LongestSymbol(p))))

OneToken(example, kind) ==
    (Done /\ SourceIs(example)) =>
        /\ Len(tokens) = 1
        /\ Value(tokens[1]) = OkToken(kind, <<>>, 0)
        /\ tokens[1].span = [start |-> 0, end |-> ByteLen(example)]

CommentOpener(p) ==
    PrefixAt(source, p, <<"/", "/">>) \/ PrefixAt(source, p, <<"/", "*">>)

\* C2 as stated: at every scan position the longest operator literal that is
\* a prefix of the remaining input is the token emitted there.
C2_AsStated ==
    \A p \in scanned : SymbolPrefixes(p) # {} => EmitsLongestSymbol(p)

\* C2: at every scan position whose remaining input does not open a comment
\* (// or /*), the longest operator literal that is a prefix of the remaining
\* input is the token emitted there; "===" is one EqEqEq and "!==" one Nee.
C2_LongestOperator ==
    /\ \A p \in scanned :
          (SymbolPrefixes(p) # {} /\ ~CommentOpener(p)) => EmitsLongestSymbol(p)
    /\ OneToken(ExEqEqEq, "EqEqEq")
    /\ OneToken(ExNee, "Nee")

\* A finished scan that met a position where three operator literals match.
C2_Witness ==
    /\ Done
    /\ \E p \in scanned : Cardinality(SymbolPrefixes(p)) >= 3 /\ ~CommentOpener(p)

----------------------------------------------------------------------------
(* C3 *)

\* The maximal run [a-zA-Z0-9_]* that starts at an identifier start.
WordAt(p) == SubSeq(source, p + 1, p + 1 + RunLen(source, p + 1, "ident"))

StartsWord(p) == p < Len(source) /\ IsIdentStart(source[p + 1])

KeywordsOf(w) == {t \in Keywords : Literal(t) = w}

WordToken(w) ==
    IF KeywordsOf(w) # {} THEN OkToken(CHOOSE t \in KeywordsOf(w) : TRUE, <<>>, 0)
    ELSE OkToken("Ident", w, 0)

\* C3: a maximal identifier run w at a scan position yields exactly one
\* token, spanning w: the keyword when w is one of the keywords, Ident(w)
\* otherwise; the scan goes on right after w; "selfish" is one Ident.
C3_KeywordOrIdent ==
    /\ Cardinality(Keywords) = 17
    /\ \A p \in scanned : StartsWord(p) =>
          /\ Cardinality(ResultsAt(p)) = 1
          /\ \A r \in ResultsAt(p) :
                /\ Value(r) = WordToken(WordAt(p))
                /\ r.span.end = ByteOff(source, p + Len(WordAt(p)))
          /\ Done => ResumesAt(p + Len(WordAt(p)))
    /\ (Done /\ SourceIs(ExSelfish)) => Values(tokens) = <<OkToken("Ident", ExSelfish, 0)>>

\* A finished scan with an identifier that extends a keyword.
C3_Witness ==
    /\ Done
    /\ \E r \in Results :
          /\ r.kind = "Ident"
          /\ \E t \in Keywords :
                /\ Len(Literal(t)) < Len(r.text)
                /\ SubSeq(r.text, 1, Len(Literal(t))) = Literal(t)

----------------------------------------------------------------------------
(* C4 *)

\* No skip alternative, no #[token] and no #[regex] matches at p.
Unmatched(p) ==
    /\ p < Len(source)
    /\ SkipLen(source, p) = 0
    /\ FixedCandidates(source, p) = {}
    /\ IntegerLen(source, p) = 0 /\ FloatLen(source, p) = 0
    /\ StringLen(source, p) = 0 /\ IdentLen(source, p) = 0

NonAsciiError == ErrValue("NonAsciiCharacter", "")

LetAtResults ==
    (Done /\ SourceIs(ExLetAt)) =>
        /\ Values(tokens) = <<OkToken("Let", <<>>, 0), OkToken("Ident", <<"x">>, 0),
                              OkToken("Eq", <<>>, 0), NonAsciiError,
                              OkToken("Semi", <<>>, 0)>>
        /\ tokens[4].span = [start |-> 8, end |-> 9]

\* C4 as stated: an unmatched byte at a scan position yields exactly one
\* NonAsciiCharacter error whose span is that single byte, and the scan
\* resumes at the very next position.
C4_AsStated ==
    /\ \A p \in scanned : Unmatched(p) =>
          /\ Cardinality(ResultsAt(p)) = 1
          /\ \A r \in ResultsAt(p) :
                /\ Value(r) = NonAsciiError
                /\ r.span.end = r.span.start + 1
          /\ Done => ResumesAt(p + 1)
    /\ LetAtResults

\* C4: an unmatched character at a scan position yields exactly one
\* NonAsciiCharacter error that starts there.  Unless the character is a
\* double quote the span covers exactly that character (one byte when ASCII,
\* its whole encoding otherwise) and the scan resumes right after it; the
\* span of an unmatched double quote starts at the quote, is not empty and
\* the scan resumes where it ends.  "let x = @;" yields Let, Ident("x"), Eq,
\* the error at byte 8, Semi.
C4_ErrorResumption ==
    /\ \A p \in scanned : Unmatched(p) =>
          /\ Cardinality(ResultsAt(p)) = 1
          /\ \A r \in ResultsAt(p) :
                /\ Value(r) = NonAsciiError
                /\ IF source[p + 1] = "\""
                   THEN \E q \in (p + 1)..Len(source) :
                           /\ r.span.end = ByteOff(source, q)
                           /\ Done => ResumesAt(q)
                   ELSE /\ r.span.end = r.span.start + Width(source[p + 1])
                        /\ Done => ResumesAt(p + 1)
    /\ LetAtResults

\* A finished scan with an unmatched character and a token after it.
C4_Witness ==
    /\ Done
    /\ \E p \in scanned :
          /\ Unmatched(p)
          /\ \E r \in Results : r.ok /\ r.span.start >= ByteOff(source, p + 1)

----------------------------------------------------------------------------
(* C5 *)

\* A slash-star at p with no star-slash after it.
UnterminatedBlock(p) ==
    /\ PrefixAt(source, p, <<"/", "*">>)
    /\ \A q \in (p + 2)..Len(source) : ~PrefixAt(source, q, <<"*", "/">>)

\* C5 as stated: from an unterminated slash-star at a scan position to the
\* end of the source nothing is emitted, neither token nor error.
C5_AsStated ==
    \A p \in scanned : UnterminatedBlock(p) =>
        \A r \in Results : r.span.start < ByteOff(source, p)

\* C5: an unterminated slash-star at a scan position is not skipped: the
\* Slash token of its "/" is emitted there, with a non-empty span.
C5_UnterminatedBlockEmits ==
    \A p \in scanned : UnterminatedBlock(p) =>
        \E r \in ResultsAt(p) :
            /\ Value(r) = OkToken("Slash", <<>>, 0)
            /\ r.span.start < r.span.end

\* A finished scan that met an unterminated slash-star with text after it.
C5_Witness ==
    /\ Done
    /\ \E p \in scanned : UnterminatedBlock(p) /\ p + 2 < Len(source)

----------------------------------------------------------------------------
(* C10 *)

\* C10: the scan loop terminates with progress: every iteration strictly
\* advances the scan position (the last one to the end of the source), which
\* never passes the end of the source; every result has a non-empty span and
\* the number of results never exceeds the bytes scanned so far, hence never
\* the length of the source in bytes.
C10_TerminatesWithProgress ==
    /\ [][pc = "lex" => pos' > pos \/ (pc' = "done" /\ pos' = Len(source))]_vars
    /\ [](/\ pos <= Len(source)
          /\ \A r \in Results : r.span.start < r.span.end
          /\ Len(tokens) <= ByteOff(source, pos)
          /\ ByteOff(source, pos) <= ByteLen(source))

\* A finished scan with one result per byte of a source of three bytes or more.
C10_Witness ==
    /\ Done
    /\ Len(tokens) = ByteLen(source)
    /\ Len(tokens) >= 3

----------------------------------------------------------------------------
(* C8 *)

DigitRunAt(p) == SubSeq(source, p + 1, p + RunLen(source, p, "digit"))

\* A run of digits at p that is not followed by "." and a digit.
StartsInteger(p) ==
    /\ p < Len(source)
    /\ IsDigit(source[p + 1])
    /\ LET e == p + Len(DigitRunAt(p))
       IN  ~(e + 2 <= Len(source) /\ source[e + 1] = "." /\ IsDigit(source[e + 2]))

RECURSIVE StripZeros(_)
StripZeros(d) == IF d # <<>> /\ Head(d) = "0" THEN StripZeros(Tail(d)) ELSE d

I32MaxDigits == <<"2", "1", "4", "7", "4", "8", "3", "6", "4", "7">>

\* a <= b for digit strings of one length.
DigitsLeq(a, b) ==
    \/ a = b
    \/ \E k \in 1..Len(a) :
          /\ \A j \in 1..(k - 1) : a[j] = b[j]
          /\ DigitValue(a[k]) < DigitValue(b[k])

\* The value of the digit string is within 0..2^31-1.
FitsI32(d) ==
    LET z == StripZeros(d)
    IN  Len(z) < Len(I32MaxDigits) \/ (Len(z) = Len(I32MaxDigits) /\ DigitsLeq(z, I32MaxDigits))

RECURSIVE Decimal(_)
Decimal(d) ==
    IF d = <<>> THEN 0
    ELSE Decimal(SubSeq(d, 1, Len(d) - 1)) * 10 + DigitValue(d[Len(d)])

\* C8: a maximal digit run at a scan position, not followed by "." and a
\* digit, yields exactly one result spanning the run: Integer(value) when the
\* value is within 0..2^31-1, the error InvalidInteger("overflow") otherwise;
\* the scan goes on right after the run.
C8_IntegerDecoding ==
    \A p \in scanned : StartsInteger(p) =>
        /\ Cardinality(ResultsAt(p)) = 1
        /\ \A r \in ResultsAt(p) :
              /\ r.span.end = ByteOff(source, p + Len(DigitRunAt(p)))
              /\ IF FitsI32(DigitRunAt(p))
                 THEN Value(r) = OkToken("Integer", <<>>, Decimal(StripZeros(DigitRunAt(p))))
                 ELSE Value(r) = ErrValue("InvalidInteger", "overflow")
        /\ Done => ResumesAt(p + Len(DigitRunAt(p)))

\* A finished scan with an overflowing run, a token after it, and 2^31-1.
C8_Witness ==
    /\ Done
    /\ \E r \in Results :
          /\ Value(r) = ErrValue("InvalidInteger", "overflow")
          /\ \E r2 \in Results : r2.ok /\ r2.span.start >= r.span.end
    /\ \E r \in Results : r.kind = "Integer" /\ r.num = I32Max

----------------------------------------------------------------------------
(* C9 *)

\* C9: the Display text of every fixed-text variant lexes to exactly one Ok
\* result, that variant, whose span covers the whole text.
C9_RoundTrip ==
    \A t \in FixedTokens : OneToken(Display(t), t)

\* The round trip of the three-character operator "!==".
C9_Witness ==
    /\ Done
    /\ SourceIs(Display("Nee"))
    /\ Len(tokens) = 1 /\ tokens[1].kind = "Nee" /\ tokens[1].span.end = 3

----------------------------------------------------------------------------
(* C6 *)

RECURSIVE LexAll(_, _, _)
\* The attempts lex_source collects from s, scanning from p.
LexAll(rw, s, p) ==
    LET m == LexerNext(rw, s, p)
    IN  IF m.class = "end" THEN <<>> ELSE <<m>> \o LexAll(rw, s, m.end)

ValuesOf(rw, s) ==
    LET all == LexAll(rw, s, 0) IN [k \in 1..Len(all) |-> Value(Sliced(s, all[k]))]

BaseLexemes == LET all == LexAll(rewinds, base, 0) IN {all[k] : k \in 1..Len(all)}

\* The insertion point touches no lexeme of base from the inside: it is the
\* start or the end of a lexeme, or the start or the end of base.
AtBoundary ==
    insAt \in {0, Len(base)} \cup {m.start : m \in BaseLexemes} \cup {m.end : m \in BaseLexemes}

Inserted == filler # <<>>

WhitespaceOnly == \A k \in 1..Len(filler) : IsSpace(filler[k])

\* Before the insertion point: a "/" token that ends there, an unmatched
\* double quote, or an unterminated slash-star.
OpenBefore ==
    \E m \in BaseLexemes :
        /\ m.end <= insAt
        /\ \/ m.kind = "Slash" /\ m.end = insAt
           \/ m.class = "error" /\ base[m.start + 1] = "\""
           \/ /\ m.kind = "Slash"
              /\ PrefixAt(base, m.start, <<"/", "*">>)
              /\ ~BlockMatch(base, m.start).ok

ExCompact == <<"l", "e", "t", " ", "x", "=", "1", ";">>

ExSpaced ==
    <<" ", " ", "l", "e", "t", " ", " ", " ", "x", " ", "=", " ", "1", " ", ";",
      " ", " ", "/", "/", " ", "t", "r", "a", "i", "l", "i", "n", "g", "\n">>

----------------------------------------------------------------------------
(* C7 *)

\* The characters of the source that lie before byte offset b.
CharsBefore(b) == Max({n \in 0..Len(source) : ByteOff(source, n) <= b})

ResolvedAt == CharsBefore(Min({index, ByteLen(source)}))

NewlinesBefore(n) == {k \in 1..n : source[k] = "\n"}

ExpectedRow == 1 + Cardinality(NewlinesBefore(ResolvedAt))

ExpectedCol ==
    1 + ResolvedAt -
        (IF NewlinesBefore(ResolvedAt) = {} THEN 0 ELSE Max(NewlinesBefore(ResolvedAt)))

\* C7: rows_cols_index returns row = 1 + the newlines before byte
\* min(index, len(source)) and col = 1 + the characters between the last such
\* newline (or the start) and that byte.
C7_PositionResolution ==
    pc = "rc_done" => rows = ExpectedRow /\ cols = ExpectedCol

\* The same, for sources of one-byte characters only.
AsciiPosition ==
    (pc = "rc_done" /\ \A k \in 1..Len(source) : Width(source[k]) = 1) =>
        rows = ExpectedRow /\ cols = ExpectedCol

====
